---- MODULE Spec2Model ----
(***************************************************************************)
(* Dreamscribe generation orchestrator: one generateStory call             *)
(* (src/lib/storyEngine.ts) over the four provider clients                 *)
(* (src/lib/clients/*.ts), and the model comparison run of the workspace   *)
(* page (handleRunABExperiment).                                           *)
(*                                                                         *)
(* Texts (error messages, JSON payloads) are sequences of lower-cased      *)
(* words; String.includes(x) is modelled word by word, with the table      *)
(* ModelWords naming the words that contain "model" as a substring.        *)
(* Time is counted in seconds.                                             *)
(***************************************************************************)
EXTENDS Integers, Sequences, FiniteSets, TLC

\* ------------------------------------------------------------------------
\* Bounds of the model
\* ------------------------------------------------------------------------
\* Seconds an HTTP exchange takes when the backend answers before the timer.
QuickSec == 40
\* Comparison runs the user starts in one behaviour.
MaxRuns == 1

\* ------------------------------------------------------------------------
\* Program constants
\* ------------------------------------------------------------------------
\* withTimeout(promise, ms = 60000), in seconds.
TimeoutSec == 60
\* CACHE_TTL = 60 * 60 * 1000 ms, in seconds.
CACHE_TTL == 3600

NoModel == "undefined"
NoStatus == 0 - 1

Range(s) == {s[i] : i \in 1..Len(s)}

\* Array.from(new Set(list)): first occurrences, in order.
Dedupe(s) == SelectSeq([i \in 1..Len(s) |->
                          IF \E j \in 1..(i - 1) : s[j] = s[i] THEN NoModel ELSE s[i]],
                       LAMBDA x : x # NoModel)

\* ------------------------------------------------------------------------
\* ProviderCatalog
\* ------------------------------------------------------------------------
Providers == {"openai", "anthropic", "gemini", "deepseek"}

defaultProviders ==
  [p \in Providers |->
    CASE p = "openai" ->
           [label |-> "openai",
            models |-> <<"gpt-4o-mini", "gpt-4o">>,
            defaultModel |-> "gpt-4o-mini"]
      [] p = "anthropic" ->
           [label |-> "anthropic",
            models |-> <<"claude-3-5-haiku-latest", "claude-3-5-sonnet", "claude-3-5-opus",
                         "claude-3-opus", "claude-3-haiku">>,
            defaultModel |-> "claude-3-5-haiku-latest"]
      [] p = "gemini" ->
           [label |-> "gemini",
            models |-> <<"gemini-1.5-flash-001", "gemini-1.5-flash", "gemini-1.5-flash-8b",
                         "gemini-1.5-flash-8b-001", "gemini-1.5-pro-001", "gemini-1.5-pro",
                         "gemini-1.5-pro-exp">>,
            defaultModel |-> "gemini-1.5-flash-001"]
      [] OTHER ->
           [label |-> "deepseek",
            models |-> <<"deepseek-chat", "deepseek-reasoner", "deepseek-coder",
                         "deepseek-math">>,
            defaultModel |-> "deepseek-chat"]]

\* ------------------------------------------------------------------------
\* Texts
\* ------------------------------------------------------------------------
\* Words of the modelled texts that contain "model" as a substring.
ModelWords == {"model", "models", "model_not_found"}

\* text.includes("model")
IncludesModel(text) == \E i \in 1..Len(text) : text[i] \in ModelWords

\* text.includes(phrase), phrase a sequence of whole words
IncludesPhrase(text, phrase) ==
  \E i \in 0..(Len(text) - Len(phrase)) :
    \A k \in 1..Len(phrase) : text[i + k] = phrase[k]

\* ------------------------------------------------------------------------
\* Errors.  payload = << >> stands for an undefined payload.
\* ------------------------------------------------------------------------
AIClientError(message, status, payload) ==
  [name |-> "AIClientError", message |-> message, status |-> status, payload |-> payload]

\* response.json() rejecting on a malformed body: not an AIClientError.
SyntaxError ==
  [name |-> "SyntaxError", message |-> <<"unexpected", "token">>,
   status |-> NoStatus, payload |-> << >>]

\* withTimeout's rejection.
TimeoutError == AIClientError(<<"request", "timed", "out">>, NoStatus, << >>)

\* String(error) of the TypeError fetch rejects with, per browser.
FetchTypeErrors ==
  { <<"typeerror", "failed", "to", "fetch">>,
    <<"typeerror", "load", "failed">> }

\* fetchWithHandling's transport failure.
TransportError(label, cause) ==
  AIClientError(<<label, "request", "failed", "before", "reaching", "the", "api",
                  "ensure", "the", "dev", "proxy", "is", "active">>,
                NoStatus, <<"cause">> \o cause)

\* The bodies a backend sends with a non-2xx status: unparsable, or
\* {error: {message: detail}}.
ErrorDetails ==
  { << >>,
    <<"invalid", "api", "key">>,
    <<"model", "not", "found">>,
    <<"resource", "does", "not", "exist">> }

\* post<Provider>: the error thrown for a non-2xx response.
HttpError(label, status, detail) ==
  AIClientError(<<label, "error">> \o detail, status,
                IF detail = << >> THEN << >> ELSE <<"error", "message">> \o detail)

\* The JSON bodies a backend sends with a 2xx status: text or no text, with
\* or without a "model" key in the object.
DataBodies ==
  { [text |-> TRUE,  words |-> <<"id", "model", "content", "usage">>],
    [text |-> FALSE, words |-> <<"id", "model", "content", "usage">>],
    [text |-> FALSE, words |-> <<"content">>] }

\* "<Provider> returned an empty response", raw data attached.
EmptyError(label, data) ==
  AIClientError(<<label, "returned", "an", "empty", "response">>, NoStatus, data.words)

\* generateWithFallback: no candidate model is available.
UnavailableError ==
  AIClientError(<<"openai", "models", "unavailable", "this", "api", "key", "does", "not",
                  "have", "access", "to", "gpt-4o", "or", "gpt-4o-mini">>, 404, << >>)

NoError == [name |-> "none", message |-> << >>, status |-> NoStatus, payload |-> << >>]


\* ------------------------------------------------------------------------
\* State of one generateStory call
\* ------------------------------------------------------------------------
VARIABLES
  request,            \* StoryBuildRequest: [provider, model]
  pc,                 \* position of the call: idle, client, probing, fetch,
                      \* bodyOk, bodyErr, stalled, caught, done
  attempt,            \* number of client.generateStory calls made so far
  callModel,          \* request.model of the current client call
  candidates,         \* buildCandidateOrder(..) / modelFallbacks(..)
  available,          \* the list the client's POST loop walks
  idx,                \* position of the loop in available
  probe,              \* filterAvailableModels: candidate -> probe state
  filterNow,          \* filterAvailableModels: now = Date.now()
  lastError,          \* generateWithFallback / gemini: lastError
  err,                \* the error the client call threw
  result,             \* what generateStory resolved with
  response,           \* status of the HTTP response whose body is being read
  availabilityCache,  \* the cache entry of request.apiKey
  elapsed,            \* seconds since the call began
  calls,              \* history: request.model of every client call
  posts,              \* history: model of every generation POST
  timedOut,           \* history: an HTTP exchange of the call timed out
  transportSeen,      \* history: attempts in which a fetch got no response
  workAfterTimeout,   \* history: a POST or client call began after a timeout
  firstErr            \* history: the error the first client call threw

genVars == <<request, pc, attempt, callModel, candidates, available, idx, probe,
             filterNow, lastError, err, result, response, availabilityCache,
             elapsed, calls, posts, timedOut, transportSeen, workAfterTimeout,
             firstErr>>

\* ------------------------------------------------------------------------
\* State of the workspace page's model comparison
\* ------------------------------------------------------------------------
VARIABLES
  apiKeys,              \* ProviderContext: provider id -> stored key
  abExperiments,        \* activeDraft.abExperiments in the workspace state
  abWorkingExperiment,  \* useState: the run in progress, or NoExperiment
  abError,              \* useState: the comparison's error line
  localError,           \* ModelABExplorerPanel useState: the panel's error line
  panelSelection,       \* ModelABExplorerPanel useState: selection
  experiment,           \* handleRunABExperiment: const experiment
  resolved,             \* handleRunABExperiment: const resolved
  mutableVariants,      \* handleRunABExperiment: const mutableVariants
  existingExperiments,  \* activeDraft.abExperiments as the handler captured it
  runs,                 \* number of times "Run comparison" was pressed
  submitted,            \* history: the selection of every press
  abRequests,           \* variant id -> the request handed to generateStory
  outcomes              \* variant id -> what its generateStory promise settled with

abVars == <<apiKeys, abExperiments, abWorkingExperiment, abError, localError,
            panelSelection, experiment,
            resolved, mutableVariants, existingExperiments, runs, submitted,
            abRequests, outcomes>>

\* ------------------------------------------------------------------------
\* State of the filterAvailableModels calls that share one credential
\* ------------------------------------------------------------------------
VARIABLES
  filterCall,           \* call -> [pc, now, candidates] of a filterAvailableModels call
  wallClock,            \* Date.now(), in seconds
  waits,                \* number of times the clock was advanced
  probeRounds           \* history: [call, at] of every probe round begun

cacheVars == <<filterCall, wallClock, waits, probeRounds>>

\* ------------------------------------------------------------------------
\* State of one estimateGenerationCost(providerId, tokens) evaluation
\* ------------------------------------------------------------------------
VARIABLES
  costProvider,         \* the argument providerId
  costTokens,           \* the argument tokens
  costEstimate          \* the returned number, in thousandths; NoStatus before the call

costVars == <<costProvider, costTokens, costEstimate>>

vars == <<genVars, abVars, cacheVars, costVars>>

\* What an action of one part of the program leaves alone.
offGen == <<abVars, cacheVars, costVars>>
offAB == <<genVars, cacheVars, costVars>>
offCache == <<abVars, costVars>>

NoResult == [name |-> "pending"]
NoCache == [present |-> FALSE, timestamp |-> 0, models |-> {}]
NoProbe == [m \in {} |-> "none"]

\* Date.now() when the call begins: one TTL after time 0.
StartClock == CACHE_TTL
clock == StartClock + elapsed

provider == defaultProviders[request.provider]

\* ------------------------------------------------------------------------
\* src/lib/clients/openai.ts
\* ------------------------------------------------------------------------
OpenAIExtraModels == <<"gpt-4o-mini", "gpt-4o", "gpt-4o-mini-2024-07-18", "gpt-4o-2024-08-06">>

\* Variant of buildCandidateOrder: the fixed model names are not appended.
buildCandidateOrderShort(preferred, providerDefault) ==
  Dedupe(<<IF preferred = NoModel THEN providerDefault ELSE preferred, providerDefault>>)

buildCandidateOrder(preferred, providerDefault) ==
  Dedupe(<<IF preferred = NoModel THEN providerDefault ELSE preferred, providerDefault>>
         \o OpenAIExtraModels)

\* Variant of CacheHit: an entry exactly one TTL old still counts.
CacheHitInclusive(cache, now) == cache.present /\ now - cache.timestamp <= CACHE_TTL

\* filterAvailableModels: cache && now - cache.timestamp < CACHE_TTL
CacheHit(cache, now) == cache.present /\ now - cache.timestamp < CACHE_TTL

\* Variant of CacheEntry: the models of the entry in place are kept.
CacheEntryMerged(now, found) ==
  [present |-> TRUE, timestamp |-> now, models |-> found \cup availabilityCache.models]

\* availabilityCache.set(apiKey, { timestamp: now, models: available })
CacheEntry(now, found) == [present |-> TRUE, timestamp |-> now, models |-> found]

\* Variant of FilterBy: every candidate is kept.
FilterByNothing(cands, set) == cands

\* candidates.filter((model) => set.has(model))
FilterBy(cands, set) == SelectSeq(cands, LAMBDA x : x \in set)

\* Variant of OpenAIContinues: every AIClientError moves on to the next model.
OpenAIContinuesAnyStatus(e) == e.name = "AIClientError"

\* generateWithFallback's catch: continue with the next model on a 404.
OpenAIContinues(e) == e.name = "AIClientError" /\ e.status = 404

\* ------------------------------------------------------------------------
\* src/lib/clients/gemini.ts
\* ------------------------------------------------------------------------
modelFallbacks(model) ==
  Dedupe(<<model>>
         \o (IF model = "gemini-1.5-flash" THEN <<"gemini-1.5-flash-001">> ELSE << >>)
         \o (IF model = "gemini-1.5-flash-8b" THEN <<"gemini-1.5-flash-8b-001">> ELSE << >>)
         \o (IF model = "gemini-1.5-pro" THEN <<"gemini-1.5-pro-001">> ELSE << >>)
         \o (IF model = "gemini-pro" THEN <<"gemini-1.5-pro", "gemini-1.5-pro-001">> ELSE << >>))

\* Variant of GeminiIs404: only the HTTP status counts.
GeminiIs404StatusOnly(e) == e.status = 404

\* msg = String(e.message || e.payload || "").toLowerCase()
GeminiIs404(e) ==
  \/ e.status = 404
  \/ IncludesPhrase(IF e.message # << >> THEN e.message ELSE e.payload, <<"not", "found">>)

\* ------------------------------------------------------------------------
\* src/lib/storyEngine.ts
\* ------------------------------------------------------------------------
\* Variant of isModelError: every error that carries an HTTP status counts.
isModelErrorAnyStatus(e) ==
  /\ e.name = "AIClientError"
  /\ \/ e.status # NoStatus
     \/ IncludesModel(e.message)
     \/ IncludesModel(e.payload)
     \/ IncludesPhrase(e.message, <<"does", "not", "exist">>)

isModelError(e) ==
  /\ e.name = "AIClientError"
  /\ \/ e.status = 404
     \/ IncludesModel(e.message)
     \/ IncludesModel(e.payload)
     \/ IncludesPhrase(e.message, <<"does", "not", "exist">>)

\* The catch block encloses the first client call only.
InsideTry == attempt = 1

\* Variant of fallback: the last model the provider lists.
fallbackLastListed == provider.models[Len(provider.models)]

\* const fallback = request.provider.defaultModel
fallback == provider.defaultModel

RetriesWithDefault(e) ==
  InsideTry /\ isModelError(e) /\ request.model # fallback

\* ------------------------------------------------------------------------
\* Steps of the call.  A step runs from one await to the next.
\* ------------------------------------------------------------------------
loopVars == <<candidates, available, idx, probe, filterNow, lastError, response>>
histVars == <<calls, posts, timedOut, transportSeen, workAfterTimeout, firstErr>>

\* The client issues the generation POST for av[i].
StartPost(av, i, afterTimeout) ==
  /\ available' = av
  /\ idx' = i
  /\ posts' = Append(posts, av[i])
  /\ workAfterTimeout' = (workAfterTimeout \/ afterTimeout)
  /\ pc' = "fetch"

\* The client call rejects with e: generateStory's catch block is next.
ThrowToOrchestrator(e) ==
  /\ pc' = "caught"
  /\ err' = e

\* Whether the client's loop goes on to its next model after error e.
ClientContinues(e) ==
  CASE request.provider = "openai" -> OpenAIContinues(e) /\ idx < Len(available)
    [] request.provider = "gemini" -> GeminiIs404(e) /\ idx # Len(available)
    [] OTHER -> FALSE

\* Error e is raised inside the client while it handles the POST for
\* available[idx] (generateWithFallback 106-117, gemini 95-107; the other
\* clients have no catch).
ClientCatch(e, afterTimeout) ==
  /\ lastError' = e
  /\ IF ClientContinues(e)
       THEN /\ StartPost(available, idx + 1, afterTimeout)
            /\ UNCHANGED err
       ELSE /\ ThrowToOrchestrator(e)
            /\ UNCHANGED <<available, idx, posts, workAfterTimeout>>

\* generateStory(request): getClient, then client.generateStory(request).
GenerateStory ==
  /\ UNCHANGED offGen
  /\ pc = "idle"
  /\ pc' = "client"
  /\ attempt' = 1
  /\ callModel' = request.model
  /\ calls' = <<request.model>>
  /\ UNCHANGED <<request, loopVars, err, result, availabilityCache, elapsed, posts,
                 timedOut, transportSeen, workAfterTimeout, firstErr>>

\* client.generateStory up to its first await.
ClientGenerateStory ==
  /\ UNCHANGED offGen
  /\ pc = "client"
  /\ LET d == provider.defaultModel
         m == IF callModel = NoModel THEN d ELSE callModel
     IN
       CASE request.provider = "openai" ->
              LET cands == buildCandidateOrder(callModel, d) IN
                /\ candidates' = cands
                /\ IF CacheHit(availabilityCache, clock)
                     THEN LET av == FilterBy(cands, availabilityCache.models) IN
                            /\ IF av = << >>
                                 THEN /\ ThrowToOrchestrator(UnavailableError)
                                      /\ UNCHANGED <<available, idx, posts, workAfterTimeout>>
                                 ELSE /\ StartPost(av, 1, timedOut)
                                      /\ UNCHANGED err
                            /\ UNCHANGED <<probe, filterNow>>
                     ELSE /\ pc' = "probing"
                          /\ probe' = [c \in Range(cands) |-> "inflight"]
                          /\ filterNow' = clock
                          /\ UNCHANGED <<available, idx, posts, workAfterTimeout, err>>
         [] request.provider = "gemini" ->
              /\ candidates' = modelFallbacks(m)
              /\ StartPost(modelFallbacks(m), 1, timedOut)
              /\ UNCHANGED <<probe, filterNow, err>>
         [] OTHER ->
              /\ candidates' = <<m>>
              /\ StartPost(<<m>>, 1, timedOut)
              /\ UNCHANGED <<probe, filterNow, err>>
  /\ UNCHANGED <<request, attempt, callModel, lastError, result, response,
                 availabilityCache, elapsed, calls, timedOut, transportSeen, firstErr>>

\* A model probe (GET /models/<model>) settles: 2xx, non-2xx, no response
\* (TypeError) or timer.  Errors are swallowed by the probe's catch.
ProbeSettles(m, outcome) ==
  /\ UNCHANGED offGen
  /\ pc = "probing"
  /\ probe[m] = "inflight"
  /\ probe' = [probe EXCEPT ![m] = outcome]
  /\ timedOut' = (timedOut \/ outcome = "timeout")
  /\ transportSeen' = (IF outcome = "transport" THEN transportSeen \cup {attempt}
                                                 ELSE transportSeen)
  /\ UNCHANGED <<request, pc, attempt, callModel, candidates, available, idx, filterNow,
                 lastError, err, result, response, availabilityCache, elapsed, calls,
                 posts, workAfterTimeout, firstErr>>

\* Promise.all of the probes resolved: filterAvailableModels 154-160, then
\* generateWithFallback 96-104.
FilterDone ==
  /\ UNCHANGED offGen
  /\ pc = "probing"
  /\ \A m \in DOMAIN probe : probe[m] # "inflight"
  /\ LET ok == {m \in DOMAIN probe : probe[m] = "ok"}
         av == FilterBy(candidates, ok)
     IN
       /\ availabilityCache' = CacheEntry(filterNow, ok)
       /\ IF av = << >>
            THEN /\ ThrowToOrchestrator(UnavailableError)
                 /\ UNCHANGED <<available, idx, posts, workAfterTimeout>>
            ELSE /\ StartPost(av, 1, timedOut)
                 /\ UNCHANGED err
  /\ elapsed' = elapsed + (IF \E m \in DOMAIN probe : probe[m] = "timeout"
                             THEN TimeoutSec ELSE QuickSec)
  /\ probe' = NoProbe
  /\ UNCHANGED <<request, attempt, callModel, candidates, filterNow, lastError, result,
                 response, calls, timedOut, transportSeen, firstErr>>

\* fetch of the generation POST resolves with a response of status s.
PostResponds(s) ==
  /\ UNCHANGED offGen
  /\ pc = "fetch"
  /\ response' = s
  /\ pc' = IF s = 200 THEN "bodyOk" ELSE "bodyErr"
  /\ elapsed' = elapsed + QuickSec
  /\ UNCHANGED <<request, attempt, callModel, candidates, available, idx, probe, filterNow,
                 lastError, err, result, availabilityCache, histVars>>

\* fetch rejects with a TypeError: fetchWithHandling 65-72.
PostTransportFailure(cause) ==
  /\ UNCHANGED offGen
  /\ pc = "fetch"
  /\ transportSeen' = transportSeen \cup {attempt}
  /\ elapsed' = elapsed + QuickSec
  /\ ClientCatch(TransportError(provider.label, cause), timedOut)
  /\ UNCHANGED <<request, attempt, callModel, candidates, probe, filterNow, result,
                 response, availabilityCache, calls, timedOut, firstErr>>

\* withTimeout's timer fires before fetch settles.
PostTimesOut ==
  /\ UNCHANGED offGen
  /\ pc = "fetch"
  /\ timedOut' = TRUE
  /\ elapsed' = elapsed + TimeoutSec
  /\ ClientCatch(TimeoutError, TRUE)
  /\ UNCHANGED <<request, attempt, callModel, candidates, probe, filterNow, result,
                 response, availabilityCache, calls, transportSeen, firstErr>>

\* Variant of AIResponse: the story is attributed to the call's first POST.
AIResponseOfFirstPost(model, post, data) ==
  [name |-> "AIResponse", content |-> posts[1], post |-> 1, raw |-> data.words]

\* The client's parse(data): content, tokensUsed and raw are all taken from
\* data, the body of the response to POST number post, made for model.
AIResponse(model, post, data) ==
  [name |-> "AIResponse", content |-> model, post |-> post, raw |-> data.words]

\* response.json() of a 2xx response delivers data.
BodyDelivers(data) ==
  /\ UNCHANGED offGen
  /\ pc = "bodyOk"
  /\ IF data.text
       THEN /\ pc' = "done"
            /\ result' = AIResponse(available[idx], Len(posts), data)
            /\ UNCHANGED <<lastError, err, available, idx, posts, workAfterTimeout>>
       ELSE /\ ClientCatch(EmptyError(provider.label, data), timedOut)
            /\ UNCHANGED result
  /\ UNCHANGED <<request, attempt, callModel, candidates, probe, filterNow, response,
                 availabilityCache, elapsed, calls, timedOut, transportSeen, firstErr>>

\* response.json() of a 2xx response rejects: the body is not JSON.
BodyMalformed ==
  /\ UNCHANGED offGen
  /\ pc = "bodyOk"
  /\ ClientCatch(SyntaxError, timedOut)
  /\ UNCHANGED <<request, attempt, callModel, candidates, probe, filterNow, result,
                 response, availabilityCache, elapsed, calls, timedOut, transportSeen,
                 firstErr>>

\* The error body of a non-2xx response is read (detail << >>: unparsable
\* or without error.message) and the client throws.
ErrorBodyDelivers(detail) ==
  /\ UNCHANGED offGen
  /\ pc = "bodyErr"
  /\ ClientCatch(HttpError(provider.label, response, detail), timedOut)
  /\ UNCHANGED <<request, attempt, callModel, candidates, probe, filterNow, result,
                 response, availabilityCache, elapsed, calls, timedOut, transportSeen,
                 firstErr>>

\* The backend sent the headers and never finishes the body: response.json()
\* stays pending, and no timer is armed any more (withTimeout wraps fetch only).
BodyStalls ==
  /\ UNCHANGED offGen
  /\ pc \in {"bodyOk", "bodyErr"}
  /\ pc' = "stalled"
  /\ UNCHANGED <<request, attempt, callModel, loopVars, err, result, availabilityCache,
                 elapsed, histVars>>

\* generateStory's catch block (storyEngine.ts 36-51).
OrchestratorCatch ==
  /\ UNCHANGED offGen
  /\ pc = "caught"
  /\ firstErr' = IF attempt = 1 THEN err ELSE firstErr
  /\ IF RetriesWithDefault(err)
       THEN /\ pc' = "client"
            /\ attempt' = attempt + 1
            /\ callModel' = fallback
            /\ calls' = Append(calls, fallback)
            /\ workAfterTimeout' = (workAfterTimeout \/ timedOut)
            /\ UNCHANGED result
       ELSE /\ pc' = "done"
            /\ result' = err
            /\ UNCHANGED <<attempt, callModel, calls, workAfterTimeout>>
  /\ UNCHANGED <<request, loopVars, err, availabilityCache, elapsed, posts, timedOut,
                 transportSeen>>

ProbeOutcomes == {"ok", "notok", "transport", "timeout"}
Statuses == {200, 401, 404}

NextGen ==
  \/ GenerateStory
  \/ ClientGenerateStory
  \/ \E m \in DOMAIN probe, o \in ProbeOutcomes : ProbeSettles(m, o)
  \/ FilterDone
  \/ \E s \in Statuses : PostResponds(s)
  \/ \E c \in FetchTypeErrors : PostTransportFailure(c)
  \/ PostTimesOut
  \/ \E d \in DataBodies : BodyDelivers(d)
  \/ BodyMalformed
  \/ \E d \in ErrorDetails : ErrorBodyDelivers(d)
  \/ BodyStalls
  \/ OrchestratorCatch

\* The cache entries a call can find: none, one that expired, one that is
\* fresh (any subset of the candidate models).
FreshStamp == StartClock - QuickSec
InitialCaches ==
  {NoCache}
  \cup {[present |-> TRUE, timestamp |-> 0, models |-> {"gpt-4o"}]}
  \cup {[present |-> TRUE, timestamp |-> FreshStamp, models |-> s] :
          s \in SUBSET Range(OpenAIExtraModels)}

Requests ==
  {[provider |-> p, model |-> m] :
     p \in Providers, m \in {NoModel} \cup UNION {Range(defaultProviders[q].models) : q \in Providers}}

\* The call has not begun.
IdleGen ==
  /\ pc = "idle"
  /\ attempt = 0
  /\ callModel = NoModel
  /\ candidates = << >>
  /\ available = << >>
  /\ idx = 0
  /\ probe = NoProbe
  /\ filterNow = 0
  /\ lastError = NoError
  /\ err = NoError
  /\ result = NoResult
  /\ response = NoStatus
  /\ elapsed = 0
  /\ calls = << >>
  /\ posts = << >>
  /\ timedOut = FALSE
  /\ transportSeen = {}
  /\ workAfterTimeout = FALSE
  /\ firstErr = NoError

\* ------------------------------------------------------------------------
\* Model comparison: ModelABExplorerPanel and the workspace page's handlers.
\* A step is one browser task: a click handler, or the continuation of a
\* settled generateStory promise with the microtasks it releases.  Every
\* handler sees the state the previous step committed.
\* ------------------------------------------------------------------------
MAX_VARIANTS == 3

NoText == << >>
NoWinner == << >>
NoExperiment == [id |-> NoStatus, variants |-> << >>, winnerId |-> NoWinner]
NoEntry == [provider |-> "none", model |-> NoModel]

\* Stored keys, as sequences of characters: none, blank, usable.
NoKey == << >>
BlankKey == <<" ">>
GoodKey == <<"s", "k">>

RECURSIVE trimStart(_)
trimStart(s) == IF s # << >> /\ Head(s) = " " THEN trimStart(Tail(s)) ELSE s

RECURSIVE trimEnd(_)
trimEnd(s) ==
  IF s # << >> /\ s[Len(s)] = " " THEN trimEnd(SubSeq(s, 1, Len(s) - 1)) ELSE s

\* String.prototype.trim
trim(s) == trimEnd(trimStart(s))

\* selection.map(..).filter(Boolean): unknown providers are dropped, a model
\* the provider does not list becomes the provider's default model.
ResolveEntry(item) ==
  IF item.providerId \notin Providers
    THEN NoEntry
    ELSE [provider |-> item.providerId,
          model |-> IF item.model \in Range(defaultProviders[item.providerId].models)
                      THEN item.model
                      ELSE defaultProviders[item.providerId].defaultModel]

Resolve(selection) ==
  SelectSeq([i \in 1..Len(selection) |-> ResolveEntry(selection[i])],
            LAMBDA e : e # NoEntry)

\* Array.prototype.find over the tests' results: index of the first element
\* whose test holds, 0 if none.
FindIndex(tests) ==
  IF \E i \in 1..Len(tests) : tests[i]
    THEN CHOOSE i \in 1..Len(tests) : tests[i] /\ \A j \in 1..(i - 1) : ~tests[j]
    ELSE 0

\* Variant of missingKey: the stored key is not trimmed.
missingKeyUntrimmed(res, keys) ==
  FindIndex([i \in 1..Len(res) |-> keys[res[i].provider] = NoKey])

\* resolved.find(({ provider }) => !apiKeys[provider.id]?.trim())
missingKey(res, keys) ==
  FindIndex([i \in 1..Len(res) |-> trim(keys[res[i].provider]) = NoKey])

\* generateId: unique per call; the run number and the slot stand for it.
VariantId(run, i) == <<run, i>>

\* variants = resolved.map(..), every one pending.
NewVariants(res, run) ==
  [i \in 1..Len(res) |->
     [id |-> VariantId(run, i), providerId |-> res[i].provider, model |-> res[i].model,
      status |-> "pending", content |-> NoText, error |-> NoText]]

\* Variant of RequestFor: providerEntry is the first resolved entry.
RequestForFirstEntry(variant, res, keys) ==
  [provider |-> res[1].provider, model |-> res[1].model, apiKey |-> keys[res[1].provider]]

\* The request a variant's callback builds: providerEntry is the first
\* resolved entry of the variant's provider.
RequestFor(variant, res, keys) ==
  LET k == FindIndex([i \in 1..Len(res) |-> res[i].provider = variant.providerId])
  IN [provider |-> res[k].provider, model |-> res[k].model, apiKey |-> keys[res[k].provider]]

\* payload?.error?.message || .detail || .type || .code
ErrorExtra(payload) ==
  IF Len(payload) > 2 /\ SubSeq(payload, 1, 2) = <<"error", "message">>
    THEN SubSeq(payload, 3, Len(payload))
    ELSE NoText

resolveErrorMessage(error, fallbackText) ==
  IF error.name = "AIClientError"
    THEN IF ErrorExtra(error.payload) # NoText
           THEN error.message \o <<":">> \o ErrorExtra(error.payload)
           ELSE error.message
    ELSE fallbackText \o <<":">> \o error.message

IsSuccess(outcome) == outcome.name = "AIResponse"

\* Variant of SettledVariant: a failure is recorded as a success without text.
SettledVariantAlwaysSuccess(variant, outcome) ==
  [variant EXCEPT !.status = "success",
                  !.content = IF IsSuccess(outcome) THEN outcome.content ELSE NoText]

\* Variant of SettledVariant: the text is recorded, the status is not.
SettledVariantKeepsStatus(variant, outcome) ==
  IF IsSuccess(outcome)
    THEN [variant EXCEPT !.content = outcome.content]
    ELSE [variant EXCEPT !.error = outcome.message]

\* Variant of SettledVariant: a failure is recorded without its message.
SettledVariantNoMessage(variant, outcome) ==
  IF IsSuccess(outcome)
    THEN [variant EXCEPT !.status = "success", !.content = outcome.content]
    ELSE [variant EXCEPT !.status = "error"]

\* Object.assign(variant, ..) in the try block and in the catch block.
SettledVariant(variant, outcome) ==
  IF IsSuccess(outcome)
    THEN [variant EXCEPT !.status = "success", !.content = outcome.content]
    ELSE [variant EXCEPT
            !.status = "error",
            !.error = resolveErrorMessage(
                        outcome,
                        <<"failed", "to", "generate", "with">>
                          \o <<defaultProviders[variant.providerId].label>>)]

\* Variant of UpdateWorking: the run's initial variants are the base.
UpdateWorkingFromInitial(prev, run, variant) ==
  IF prev # NoExperiment /\ prev.id = run.id
    THEN [prev EXCEPT !.variants =
            [k \in DOMAIN run.variants |->
               IF run.variants[k].id = variant.id THEN variant ELSE run.variants[k]]]
    ELSE prev

\* Variant of UpdateWorking: the settled variant moves to the front.
UpdateWorkingSettledFirst(prev, run, variant) ==
  IF prev # NoExperiment /\ prev.id = run.id
    THEN [prev EXCEPT !.variants =
            <<variant>> \o SelectSeq(prev.variants, LAMBDA item : item.id # variant.id)]
    ELSE prev

\* setAbWorkingExperiment((prev) => ..) of the finally block.
UpdateWorking(prev, run, variant) ==
  IF prev # NoExperiment /\ prev.id = run.id
    THEN [prev EXCEPT !.variants =
            [k \in DOMAIN prev.variants |->
               IF prev.variants[k].id = variant.id THEN variant ELSE prev.variants[k]]]
    ELSE prev

\* What generateStory settles a variant's request with: a story, a timeout,
\* an HTTP failure with an error body, a malformed 2xx body.
GenOutcomes(req) ==
  { [name |-> "AIResponse", content |-> <<"story", req.provider, req.model>>],
    TimeoutError,
    HttpError(defaultProviders[req.provider].label, 401, <<"invalid", "api", "key">>),
    SyntaxError }

runLocals == <<experiment, resolved, mutableVariants, existingExperiments>>

\* handleRunABExperiment(selection), up to await Promise.all(..): every
\* variant's callback has run up to its await generateStory(request).
handleRunABExperiment(selection) ==
  LET res == Resolve(selection)
      missing == missingKey(res, apiKeys)
      run == runs + 1
      variants == NewVariants(res, run)
      exp == [id |-> run, variants |-> variants, winnerId |-> NoWinner]
  IN
    IF Len(res) < 2
      THEN /\ abError' = <<"select", "at", "least", "two", "supported", "providers">>
           /\ UNCHANGED <<abWorkingExperiment, runLocals, abRequests>>
      ELSE IF missing # 0
        THEN /\ abError' = <<"add", "an", "api", "key", "for">>
                             \o <<defaultProviders[res[missing].provider].label>>
             /\ UNCHANGED <<abWorkingExperiment, runLocals, abRequests>>
        ELSE /\ abError' = NoText
             /\ abWorkingExperiment' = exp
             /\ experiment' = exp
             /\ resolved' = res
             /\ mutableVariants' = variants
             /\ existingExperiments' = abExperiments
             /\ abRequests' = abRequests @@
                  [v \in {variants[i].id : i \in 1..Len(variants)} |->
                     RequestFor(variants[v[2]], res, apiKeys)]

\* The panel's "Run comparison" button: disabled while a run is in progress;
\* handleSubmit hands a selection of two or more entries to the page.
RunComparison(selection) ==
  /\ UNCHANGED offAB
  /\ abWorkingExperiment = NoExperiment
  /\ runs < MaxRuns
  /\ runs' = runs + 1
  /\ submitted' = Append(submitted, selection)
  /\ IF Len(selection) < 2
       THEN /\ localError' = <<"select", "at", "least", "two", "providers">>
            /\ UNCHANGED <<abError, abWorkingExperiment, runLocals, abRequests>>
       ELSE /\ localError' = NoText
            /\ handleRunABExperiment(selection)
  /\ UNCHANGED <<apiKeys, abExperiments, outcomes, panelSelection>>

\* The generateStory promise of variant i settles with outcome: the rest of
\* the callback runs (try or catch, then finally) and, when it was the last
\* promise of Promise.all, the rest of handleRunABExperiment.
VariantSettles(i, outcome) ==
  /\ UNCHANGED offAB
  /\ experiment # NoExperiment
  /\ i \in DOMAIN mutableVariants
  /\ mutableVariants[i].id \notin DOMAIN outcomes
  /\ outcome \in GenOutcomes(abRequests[mutableVariants[i].id])
  /\ outcomes' = outcomes @@ (mutableVariants[i].id :> outcome)
  /\ LET variant == SettledVariant(mutableVariants[i], outcome)
         settled == [mutableVariants EXCEPT ![i] = variant]
         finishedExperiment == [experiment EXCEPT !.variants = settled]
     IN
       IF \A k \in DOMAIN settled : settled[k].id \in DOMAIN outcomes'
         THEN /\ abWorkingExperiment' = NoExperiment
              /\ abExperiments' = <<finishedExperiment>> \o existingExperiments
              /\ experiment' = NoExperiment
              /\ resolved' = << >>
              /\ mutableVariants' = << >>
              /\ existingExperiments' = << >>
         ELSE /\ abWorkingExperiment' = UpdateWorking(abWorkingExperiment, experiment, variant)
              /\ mutableVariants' = settled
              /\ UNCHANGED <<abExperiments, experiment, resolved, existingExperiments>>
  /\ UNCHANGED <<apiKeys, abError, localError, panelSelection, runs, submitted,
                 abRequests>>

\* experimentsToDisplay of the panel.
experimentsToDisplay ==
  IF abWorkingExperiment # NoExperiment
    THEN <<abWorkingExperiment>> \o abExperiments
    ELSE abExperiments

\* isCurrentRun
isCurrentRun(exp) == abWorkingExperiment # NoExperiment /\ abWorkingExperiment.id = exp.id

\* The "Vote winner" button is disabled unless the variant is a success of
\* a run that is not the current one.
VoteWinnerEnabled(exp, variant) == variant.status = "success" /\ ~isCurrentRun(exp)

handleMarkWinner(experimentId, variantId) ==
  IF abWorkingExperiment # NoExperiment /\ abWorkingExperiment.id = experimentId
    THEN /\ abWorkingExperiment' = [abWorkingExperiment EXCEPT !.winnerId = variantId]
         /\ UNCHANGED abExperiments
    ELSE /\ abExperiments' =
              [k \in DOMAIN abExperiments |->
                 IF abExperiments[k].id = experimentId
                   THEN [abExperiments[k] EXCEPT !.winnerId = variantId]
                   ELSE abExperiments[k]]
         /\ UNCHANGED abWorkingExperiment

MarkWinner(k, j) ==
  /\ UNCHANGED offAB
  /\ k \in DOMAIN experimentsToDisplay
  /\ j \in DOMAIN experimentsToDisplay[k].variants
  /\ VoteWinnerEnabled(experimentsToDisplay[k], experimentsToDisplay[k].variants[j])
  /\ handleMarkWinner(experimentsToDisplay[k].id, experimentsToDisplay[k].variants[j].id)
  /\ UNCHANGED <<apiKeys, abError, localError, panelSelection, runLocals, runs,
                 submitted, abRequests, outcomes>>

\* The entries the panel's selection is made of: one per provider, the
\* model being the one remembered for that provider (listed or not).
ABEntries ==
  << [providerId |-> "openai", model |-> "gpt-4o"],
     [providerId |-> "anthropic", model |-> "claude-3-5-sonnet"],
     [providerId |-> "gemini", model |-> "gemini-pro"] >>

\* The panel keeps at most MAX_VARIANTS entries, no two of one provider
\* (checked under SpecPanel): the selections the comparison is explored
\* with are the non-empty subsequences of ABEntries.
Selections ==
  {[i \in DOMAIN f |-> ABEntries[f[i]]] :
     f \in {g \in UNION {[1..n -> DOMAIN ABEntries] : n \in 1..MAX_VARIANTS} :
              \A i, j \in DOMAIN g : i < j => g[i] < g[j]}}

\* Every provider has a usable key; one is stored with blanks around it.
AllKeys ==
  [p \in Providers |-> IF p = "anthropic" THEN <<" ">> \o GoodKey \o <<" ">> ELSE GoodKey]

KeyStores ==
  { AllKeys,
    [AllKeys EXCEPT !["gemini"] = NoKey],
    [AllKeys EXCEPT !["gemini"] = BlankKey],
    [AllKeys EXCEPT !["openai"] = NoKey, !["gemini"] = NoKey] }

\* A finished run stored on the draft by an earlier session.
OldExperiment ==
  [id |-> 0,
   variants |->
     << [id |-> VariantId(0, 1), providerId |-> "openai", model |-> "gpt-4o-mini",
         status |-> "success", content |-> <<"story", "openai", "gpt-4o-mini">>,
         error |-> NoText],
        [id |-> VariantId(0, 2), providerId |-> "anthropic",
         model |-> "claude-3-5-haiku-latest",
         status |-> "error", content |-> NoText, error |-> TimeoutError.message] >>,
   winnerId |-> NoWinner]

OldOutcomes ==
  (VariantId(0, 1) :> [name |-> "AIResponse", content |-> <<"story", "openai", "gpt-4o-mini">>])
    @@ (VariantId(0, 2) :> TimeoutError)

NoOutcomes == [v \in {} |-> NoError]

NextAB ==
  \/ RunComparison(panelSelection)
  \/ \E i \in DOMAIN mutableVariants :
       \E outcome \in GenOutcomes(abRequests[mutableVariants[i].id]) :
         VariantSettles(i, outcome)
  \/ \E k \in DOMAIN experimentsToDisplay :
       \E j \in DOMAIN experimentsToDisplay[k].variants : MarkWinner(k, j)

\* No comparison has been run in this session.
IdleAB ==
  /\ abWorkingExperiment = NoExperiment
  /\ abError = NoText
  /\ localError = NoText
  /\ experiment = NoExperiment
  /\ resolved = << >>
  /\ mutableVariants = << >>
  /\ existingExperiments = << >>
  /\ runs = 0
  /\ submitted = << >>
  /\ abRequests = NoOutcomes
  /\ outcomes = IF abExperiments = << >> THEN NoOutcomes ELSE OldOutcomes

\* ------------------------------------------------------------------------
\* estimateGenerationCost (workspace page).  JavaScript numbers are IEEE-754
\* doubles: a double is [m, k], standing for m / 2^k with 2^52 <= m < 2^53,
\* or Zero.  m is a natural number written as its sequence of base-1000
\* digits, lowest first, without leading zeros; 0 is << >>.
\* ------------------------------------------------------------------------
Base == 1000

RECURSIVE Strip(_)
Strip(a) == IF a # << >> /\ a[Len(a)] = 0 THEN Strip(SubSeq(a, 1, Len(a) - 1)) ELSE a

RECURSIVE FromInt(_)
FromInt(n) == IF n = 0 THEN << >> ELSE <<n % Base>> \o FromInt(n \div Base)

RECURSIVE ToInt(_)
ToInt(a) == IF a = << >> THEN 0 ELSE a[1] + Base * ToInt(Tail(a))

RECURSIVE MulCarry(_, _, _)
MulCarry(a, c, carry) ==
  IF a = << >>
    THEN FromInt(carry)
    ELSE LET v == a[1] * c + carry
         IN <<v % Base>> \o MulCarry(Tail(a), c, v \div Base)

\* a * c, c a small number
MulSmall(a, c) == Strip(MulCarry(a, c, 0))

RECURSIVE AddCarry(_, _, _)
AddCarry(a, b, carry) ==
  IF a = << >> /\ b = << >>
    THEN FromInt(carry)
    ELSE LET x == IF a = << >> THEN 0 ELSE a[1]
             y == IF b = << >> THEN 0 ELSE b[1]
             v == x + y + carry
         IN <<v % Base>>
              \o AddCarry(IF a = << >> THEN a ELSE Tail(a),
                          IF b = << >> THEN b ELSE Tail(b), v \div Base)

AddBig(a, b) == Strip(AddCarry(a, b, 0))

RECURSIVE MulBig(_, _)
MulBig(a, b) ==
  IF b = << >>
    THEN << >>
    ELSE LET rest == MulBig(a, Tail(b))
         IN AddBig(MulSmall(a, b[1]), IF rest = << >> THEN rest ELSE <<0>> \o rest)

\* Quotient (not stripped) and remainder of a by d, d a small number.
RECURSIVE DivRem(_, _)
DivRem(a, d) ==
  IF a = << >>
    THEN [q |-> << >>, r |-> 0]
    ELSE LET hi == DivRem(Tail(a), d)
             v == hi.r * Base + a[1]
         IN [q |-> <<v \div d>> \o hi.q, r |-> v % d]

Half(a) == Strip(DivRem(a, 2).q)
IsOdd(a) == a # << >> /\ a[1] % 2 = 1

RECURSIVE LessFrom(_, _, _)
LessFrom(a, b, i) ==
  IF i = 0 THEN FALSE
  ELSE IF a[i] # b[i] THEN a[i] < b[i]
  ELSE LessFrom(a, b, i - 1)

\* a < b
Less(a, b) == IF Len(a) # Len(b) THEN Len(a) < Len(b) ELSE LessFrom(a, b, Len(a))

\* 2^k, ten doublings at a time while that many are left.
RECURSIVE Pow2(_)
Pow2(k) ==
  IF k = 0 THEN <<1>>
  ELSE IF k >= 10 THEN MulSmall(Pow2(k - 10), 1024)
  ELSE MulSmall(Pow2(k - 1), 2)

MantissaBits == 53
TwoTo52 == Pow2(MantissaBits - 1)
TwoTo53 == Pow2(MantissaBits)

Zero == [m |-> << >>, k |-> 0]

\* A mantissa that rounding carried up to 2^53 is 2^52 with the next exponent.
Renorm(m, k) == IF m = TwoTo53 THEN [m |-> TwoTo52, k |-> k - 1] ELSE [m |-> m, k |-> k]

\* The double nearest to n / (d * 2^k), ties to even, for n / d < 2^52.
RECURSIVE RoundRatio(_, _, _)
RoundRatio(n, d, k) ==
  IF n = << >> THEN Zero
  ELSE IF Less(MulSmall(n, 1024), MulSmall(TwoTo52, d))
    THEN RoundRatio(MulSmall(n, 1024), d, k + 10)
  ELSE IF Less(n, MulSmall(TwoTo52, d)) THEN RoundRatio(MulSmall(n, 2), d, k + 1)
  ELSE LET dr == DivRem(n, d)
           m == Strip(dr.q)
           up == 2 * dr.r > d \/ (2 * dr.r = d /\ IsOdd(m))
       IN Renorm(IF up THEN AddBig(m, <<1>>) ELSE m, k)

\* The double nearest to n / 2^k, ties to even, for n >= 2^52: low bits are
\* shifted out, guard being the last one shifted out and sticky the others.
RECURSIVE RoundShift(_, _, _, _)
RoundShift(n, k, guard, sticky) ==
  IF Less(n, TwoTo53)
    THEN Renorm(IF guard /\ (sticky \/ IsOdd(n)) THEN AddBig(n, <<1>>) ELSE n, k)
  ELSE IF ~Less(n, MulSmall(TwoTo53, 1024))
    THEN LET dr == DivRem(n, 1024)
         IN RoundShift(Strip(dr.q), k - 10, dr.r >= 512,
                       sticky \/ guard \/ dr.r % 512 # 0)
  ELSE RoundShift(Half(n), k - 1, IsOdd(n), sticky \/ guard)

\* The double nearest to n / 2^k.
Rounded(n, k) ==
  IF n = << >> THEN Zero
  ELSE IF Less(n, TwoTo52) THEN RoundRatio(n, 1, k)
  ELSE RoundShift(n, k, FALSE, FALSE)

\* x + y
AddDouble(x, y) ==
  LET kk == IF x.k > y.k THEN x.k ELSE y.k
  IN Rounded(AddBig(MulBig(x.m, Pow2(kk - x.k)), MulBig(y.m, Pow2(kk - y.k))), kk)

\* x * y
MulDouble(x, y) == Rounded(MulBig(x.m, y.m), x.k + y.k)

RECURSIVE HalveTimes(_, _)
HalveTimes(a, j) ==
  IF j = 0 \/ a = << >> THEN a
  ELSE IF j >= 10 THEN HalveTimes(Strip(DivRem(a, 1024).q), j - 10)
  ELSE HalveTimes(Half(a), j - 1)

\* x.toFixed(3), as a number of thousandths: the integer n for which
\* n / 1000 - x is closest to zero, the larger one if there are two.
toFixed3(x) ==
  IF x = Zero THEN 0
  ELSE ToInt(HalveTimes(AddBig(MulSmall(x.m, 2 * Base), Pow2(x.k)), x.k + 1))

\* A decimal literal of the source, given in millionths.
Literal(millionths) == RoundRatio(FromInt(millionths), Base * Base, 0)

\* PROVIDER_COST_RATES, in millionths.
PROVIDER_COST_RATES ==
  [key \in {"openai", "anthropic", "gemini", "deepseek", "default"} |->
     CASE key = "openai" -> [input |-> 150, output |-> 600]
       [] key = "anthropic" -> [input |-> 800, output |-> 3000]
       [] key = "gemini" -> [input |-> 125, output |-> 375]
       [] key = "deepseek" -> [input |-> 200, output |-> 400]
       [] OTHER -> [input |-> 200, output |-> 600]]

\* Ids registerCustomProvider makes ("custom:" and a generated id), and an
\* id no row of the table is for.
CustomProviderIds == {"custom:prov-1"}
UnregisteredIds == {"mistral"}

\* providerId.startsWith("custom")
StartsWithCustom(providerId) == providerId \in CustomProviderIds

rateKey(providerId) ==
  LET key == IF StartsWithCustom(providerId) THEN "default" ELSE providerId
  IN IF key \in DOMAIN PROVIDER_COST_RATES THEN key ELSE "default"

\* estimateGenerationCost(providerId, tokens), in thousandths.
estimateGenerationCost(providerId, tokens) ==
  LET rates == PROVIDER_COST_RATES[rateKey(providerId)]
      total == MulDouble(RoundRatio(FromInt(tokens), Base, 0),
                         AddDouble(Literal(rates.input), Literal(rates.output)))
  IN toFixed3(total)

\* Bound on the token counts explored: the first multiples of 125, and the
\* counts tokensFor returns for the target lengths.
MaxTokenSteps == 20
TokenInputs ==
  {125 * i : i \in 0..MaxTokenSteps} \cup {900, 1400, 1500, 2200}

CostProviderIds == Providers \cup CustomProviderIds \cup UnregisteredIds

NoCost == NoStatus

\* The function is called with the arguments.
EstimateCost ==
  /\ UNCHANGED <<genVars, abVars, cacheVars>>
  /\ costEstimate = NoCost
  /\ costEstimate' = estimateGenerationCost(costProvider, costTokens)
  /\ UNCHANGED <<costProvider, costTokens>>

NextCost == EstimateCost

\* No estimate is being computed.
IdleCost ==
  /\ costProvider = "openai"
  /\ costTokens = 0
  /\ costEstimate = NoCost

\* ------------------------------------------------------------------------
\* filterAvailableModels calls of one credential, sharing availabilityCache
\* (src/lib/clients/openai.ts).  The calls come from generations the page
\* runs side by side: the story form, the feedback buttons and the
\* comparison each have their own busy flag.
\* ------------------------------------------------------------------------
\* Calls explored in one behaviour, and times the clock is advanced.
MaxCalls == 2
MaxWaits == 3

FilterCalls == 1..MaxCalls

NoCall == [pc |-> "idle", now |-> 0, candidates |-> << >>, returned |-> << >>]

\* The sets of models whose probe answers 2xx: none, one, all.
ProbeResults == {{}, {"gpt-4o"}, Range(OpenAIExtraModels)}

\* The steps the clock is advanced by.
WaitSteps == {QuickSec, CACHE_TTL - QuickSec, CACHE_TTL}

genCallVars == <<request, pc, attempt, callModel, loopVars, err, result, elapsed, histVars>>

\* filterAvailableModels(apiKey, candidates) up to its first await: the
\* cache is consulted, and on a miss one probe per candidate is sent.  The
\* calls are numbered in the order they begin.
FilterBegins(c, preferred) ==
  /\ UNCHANGED <<offCache, genCallVars>>
  /\ filterCall[c].pc = "idle"
  /\ \A b \in 1..(c - 1) : filterCall[b].pc # "idle"
  /\ LET cands == buildCandidateOrder(preferred, defaultProviders["openai"].defaultModel)
     IN IF CacheHit(availabilityCache, wallClock)
          THEN /\ filterCall' =
                    [filterCall EXCEPT ![c] =
                       [pc |-> "done", now |-> wallClock, candidates |-> cands,
                        returned |-> FilterBy(cands, availabilityCache.models)]]
               /\ UNCHANGED probeRounds
          ELSE /\ filterCall' =
                    [filterCall EXCEPT ![c] =
                       [pc |-> "probing", now |-> wallClock, candidates |-> cands,
                        returned |-> << >>]]
               /\ probeRounds' = probeRounds \cup {[call |-> c, at |-> wallClock]}
  /\ UNCHANGED <<availabilityCache, wallClock, waits>>

\* Promise.all of the probes of call c resolved, the models of ok having
\* answered 2xx: the cache entry is written with the call's own now.
ProbesSettle(c, ok) ==
  /\ UNCHANGED <<offCache, genCallVars>>
  /\ filterCall[c].pc = "probing"
  /\ LET found == ok \cap Range(filterCall[c].candidates)
     IN /\ availabilityCache' = CacheEntry(filterCall[c].now, found)
        /\ filterCall' =
             [filterCall EXCEPT ![c].pc = "done",
                                ![c].returned = FilterBy(filterCall[c].candidates, found)]
  /\ UNCHANGED <<wallClock, waits, probeRounds>>

\* Time passes.  Every probe is a fetch under withTimeout, so a probe round
\* is over within TimeoutSec of its beginning.
Wait(d) ==
  /\ UNCHANGED <<offCache, genCallVars>>
  /\ waits < MaxWaits
  /\ \A c \in FilterCalls :
       filterCall[c].pc = "probing" => wallClock + d - filterCall[c].now <= TimeoutSec
  /\ wallClock' = wallClock + d
  /\ waits' = waits + 1
  /\ UNCHANGED <<availabilityCache, filterCall, probeRounds>>

NextCache ==
  \/ \E c \in FilterCalls :
       \E preferred \in Range(defaultProviders["openai"].models) : FilterBegins(c, preferred)
  \/ \E c \in FilterCalls : \E ok \in ProbeResults : ProbesSettle(c, ok)
  \/ \E d \in WaitSteps : Wait(d)

\* No filterAvailableModels call of the shared-cache exploration has begun.
IdleCache ==
  /\ filterCall = [c \in FilterCalls |-> NoCall]
  /\ wallClock = StartClock
  /\ waits = 0
  /\ probeRounds = {}

\* The calls find no entry, or one written by an earlier probe round.
InitCache ==
  /\ availabilityCache \in {e \in InitialCaches : e.models \in ProbeResults}
  /\ IdleCache
  /\ request = [provider |-> "openai", model |-> "gpt-4o-mini"]
  /\ IdleGen
  /\ apiKeys = AllKeys
  /\ abExperiments = << >>
  /\ panelSelection = <<ABEntries[1]>>
  /\ IdleAB
  /\ IdleCost

SpecCache == InitCache /\ [][NextCache]_vars

\* One estimateGenerationCost call for every pair of arguments explored.
InitCost ==
  /\ costProvider \in CostProviderIds
  /\ costTokens \in TokenInputs
  /\ costEstimate = NoCost
  /\ IdleCache
  /\ availabilityCache = NoCache
  /\ request = [provider |-> "openai", model |-> "gpt-4o-mini"]
  /\ IdleGen
  /\ apiKeys = AllKeys
  /\ abExperiments = << >>
  /\ panelSelection = <<ABEntries[1]>>
  /\ IdleAB

SpecCost == InitCost /\ [][NextCost]_vars

\* One generateStory call; the comparison stays idle.
InitGen ==
  /\ request \in {r \in Requests :
                    r.model \in {NoModel} \cup Range(defaultProviders[r.provider].models)}
  /\ availabilityCache \in (IF request.provider = "openai" THEN InitialCaches ELSE {NoCache})
  /\ IdleGen
  /\ apiKeys = AllKeys
  /\ abExperiments = << >>
  /\ panelSelection = <<ABEntries[1]>>
  /\ IdleAB
  /\ IdleCache
  /\ IdleCost

SpecGen == InitGen /\ [][NextGen]_vars

\* The comparison panel; the single-generation call stays idle.
InitAB ==
  /\ apiKeys \in KeyStores
  /\ abExperiments \in {<< >>, <<OldExperiment>>}
  /\ panelSelection \in Selections
  /\ IdleAB
  /\ request = [provider |-> "openai", model |-> "gpt-4o-mini"]
  /\ availabilityCache = NoCache
  /\ IdleGen
  /\ IdleCache
  /\ IdleCost

SpecAB == InitAB /\ [][NextAB]_vars

\* ------------------------------------------------------------------------
\* The panel's selection (StoryMetadataForm.tsx, ModelABExplorerPanel)
\* ------------------------------------------------------------------------
\* modelSelections of the provider context, as loaded from localStorage:
\* the model remembered for a provider, listed by the provider or not.
modelSelections ==
  [p \in {"openai", "anthropic", "gemini"} |->
     CASE p = "openai" -> "gpt-4o"
       [] p = "anthropic" -> "claude-3-5-sonnet"
       [] OTHER -> "gemini-pro"]

\* modelSelections[id] ?? provider?.defaultModel ?? ""
RememberedModel(p) ==
  IF p \in DOMAIN modelSelections
    THEN modelSelections[p]
    ELSE defaultProviders[p].defaultModel

\* selectedModel of the provider context: the remembered model when the
\* provider lists it, the default model otherwise.
selectedModel(p) ==
  IF RememberedModel(p) \in Range(defaultProviders[p].models)
    THEN RememberedModel(p)
    ELSE defaultProviders[p].defaultModel

\* The options of a model <select> that are explored: the provider's
\* default model and the model the context selects for it.
PanelModels(p) == {defaultProviders[p].defaultModel, selectedModel(p)}

HasProvider(prev, providerId) ==
  \E i \in 1..Len(prev) : prev[i].providerId = providerId

\* Variant of toggleProvider: the provider is added without looking for it
\* in the selection.
toggleProviderAppend(prev, providerId) ==
  IF Len(prev) >= MAX_VARIANTS
    THEN prev
    ELSE Append(prev, [providerId |-> providerId, model |-> RememberedModel(providerId)])

\* The updater of toggleProvider.
toggleProvider(prev, providerId) ==
  IF HasProvider(prev, providerId)
    THEN SelectSeq(prev, LAMBDA item : item.providerId # providerId)
    ELSE IF Len(prev) >= MAX_VARIANTS
      THEN prev
      ELSE Append(prev, [providerId |-> providerId, model |-> RememberedModel(providerId)])

\* The combos of availablePresets.
Presets ==
  { <<"openai", "anthropic">>, <<"openai", "gemini">>,
    <<"openai", "deepseek">>, <<"anthropic", "gemini">> }

\* The updater of updateModel, also the first branch of the effect.
SetModelOf(prev, providerId, model) ==
  [i \in 1..Len(prev) |->
     IF prev[i].providerId = providerId
       THEN [providerId |-> providerId, model |-> model]
       ELSE prev[i]]

\* The updater of the effect on [selectedProviderId, selectedModel].
SelectedProviderEffect(prev, providerId, model) ==
  IF HasProvider(prev, providerId)
    THEN SetModelOf(prev, providerId, model)
    ELSE LET all == <<[providerId |-> providerId, model |-> model]>> \o prev
         IN SubSeq(all, 1, IF Len(all) < MAX_VARIANTS THEN Len(all) ELSE MAX_VARIANTS)

pageVars == <<apiKeys, abExperiments, abWorkingExperiment, abError, runLocals, runs,
              submitted, abRequests, outcomes>>

\* A provider's checkbox is clicked.
ToggleProvider(providerId) ==
  /\ UNCHANGED offAB
  /\ runs < MaxRuns
  /\ panelSelection' = toggleProvider(panelSelection, providerId)
  /\ localError' =
       IF ~HasProvider(panelSelection, providerId) /\ Len(panelSelection) >= MAX_VARIANTS
         THEN <<"pick", "up", "to", "3", "providers", "at", "once">>
         ELSE localError
  /\ UNCHANGED pageVars

\* A "Quick compare" button is clicked.
ApplyPreset(ids) ==
  /\ UNCHANGED offAB
  /\ runs < MaxRuns
  /\ localError' = NoText
  /\ panelSelection' =
       LET kept == SubSeq(ids, 1, IF Len(ids) < MAX_VARIANTS THEN Len(ids) ELSE MAX_VARIANTS)
       IN [i \in 1..Len(kept) |->
             [providerId |-> kept[i], model |-> RememberedModel(kept[i])]]
  /\ UNCHANGED pageVars

\* Another option of a selected provider's model <select> is chosen.
UpdateModel(providerId, model) ==
  /\ UNCHANGED offAB
  /\ runs < MaxRuns
  /\ HasProvider(panelSelection, providerId)
  /\ panelSelection' = SetModelOf(panelSelection, providerId, model)
  /\ panelSelection' # panelSelection
  /\ UNCHANGED <<localError, pageVars>>

\* The page's selected provider or model changes: the panel's effect runs.
SelectedProviderChanges(providerId, model) ==
  /\ UNCHANGED offAB
  /\ runs < MaxRuns
  /\ panelSelection' = SelectedProviderEffect(panelSelection, providerId, model)
  /\ UNCHANGED <<localError, pageVars>>

NextPanel ==
  \/ \E providerId \in Providers : ToggleProvider(providerId)
  \/ \E ids \in Presets : ApplyPreset(ids)
  \/ \E providerId \in Providers :
       \E model \in PanelModels(providerId) : UpdateModel(providerId, model)
  \/ \E providerId \in Providers :
       \E model \in PanelModels(providerId) : SelectedProviderChanges(providerId, model)
  \/ RunComparison(panelSelection)

\* The panel as mounted: one entry, the page's selected provider and model.
InitPanel ==
  /\ apiKeys \in KeyStores
  /\ abExperiments = << >>
  /\ \E p \in Providers :
       panelSelection = <<[providerId |-> p, model |-> selectedModel(p)]>>
  /\ IdleAB
  /\ request = [provider |-> "openai", model |-> "gpt-4o-mini"]
  /\ availabilityCache = NoCache
  /\ IdleGen
  /\ IdleCache
  /\ IdleCost

SpecPanel == InitPanel /\ [][NextPanel]_vars

\* ------------------------------------------------------------------------
\* Properties of one generateStory call (checked under SpecGen)
\* ------------------------------------------------------------------------
\* The model-unavailable class of failures, as the specification words it:
\* HTTP 404, or a message or payload text that mentions "model" or
\* "does not exist".
ModelUnavailableClass(e) ==
  \/ e.status = 404
  \/ IncludesModel(e.message)
  \/ IncludesModel(e.payload)
  \/ IncludesPhrase(e.message, <<"does", "not", "exist">>)
  \/ IncludesPhrase(e.payload, <<"does", "not", "exist">>)

IsFailure(r) == r.name \notin {"pending", "AIResponse"}
IsEmptyResponse(e) == IncludesPhrase(e.message, <<"returned", "an", "empty", "response">>)
FirstAttemptFailed == firstErr # NoError
\* The caller named a model, as both callers of the page do.
ExplicitModel == request.model # NoModel

C4_CallResolves == ExplicitModel => (pc = "done" \/ ENABLED NextGen)

\* C5: one timeout bounds the call as a whole: a call that took longer than
\* the timeout in total ended with the "Request timed out" failure.
C5_WholeCallBounded ==
  (ExplicitModel /\ pc = "done" /\ elapsed > TimeoutSec) => result = TimeoutError

\* C6: an empty-response failure of the first client call is terminal:
\* no retry follows it and it is what the call returns.
C6_EmptyResponseTerminal ==
  (ExplicitModel /\ FirstAttemptFailed /\ IsEmptyResponse(firstErr))
    => (Len(calls) = 1 /\ (pc = "done" => result = firstErr))

\* C7: a fetch of the first attempt that got no HTTP response is terminal:
\* no default-model retry follows it.
C7_TransportTerminal == (ExplicitModel /\ 1 \in transportSeen) => Len(calls) = 1

\* C8: a first-attempt failure outside the model-unavailable class leads to
\* exactly one client call and is itself what the caller gets; and when a
\* retry was made and failed, the caller gets the retry's error unchanged.
C8_OtherFailuresTerminal ==
  /\ (FirstAttemptFailed /\ ~ModelUnavailableClass(firstErr))
       => (Len(calls) = 1 /\ pc = "done" /\ result = firstErr)
  /\ (pc = "done" /\ Len(calls) = 2 /\ IsFailure(result))
       => result = err

\* C8 witness: an HTTP 401 on a non-default model ended the call after one
\* client call.
C8_Witness ==
  /\ pc = "done"
  /\ request.model \notin {provider.defaultModel, NoModel}
  /\ firstErr.status = 401
  /\ ~ModelUnavailableClass(firstErr)
  /\ Len(calls) = 1
  /\ result = firstErr

\* C9: a timeout is terminal: once an HTTP exchange of the call timed out,
\* no POST and no client call is begun any more, and the call ends with the
\* "Request timed out" failure.
C9_TimeoutTerminal ==
  (ExplicitModel /\ timedOut) => (~workAfterTimeout /\ (pc = "done" => result = TimeoutError))

\* The "models unavailable" failure of the OpenAI client.
IsModelsUnavailable(e) ==
  /\ e.name = "AIClientError"
  /\ e.status = 404
  /\ IncludesPhrase(e.message, <<"models", "unavailable">>)

\* The OpenAI client call learns in this step that none of its candidates is
\* available: from a fresh cache entry, or from the probes it sent.
LearnsNoneAvailable ==
  /\ request.provider = "openai"
  /\ \/ /\ pc = "client"
        /\ pc' # "client"
        /\ availabilityCache.present
        /\ clock - availabilityCache.timestamp < CACHE_TTL
        /\ Range(buildCandidateOrder(callModel, provider.defaultModel))
             \cap availabilityCache.models = {}
     \/ /\ pc = "probing"
        /\ pc' # "probing"
        /\ \A m \in DOMAIN probe : probe[m] # "ok"

\* C16: when no candidate model is available, the OpenAI client call throws
\* the "models unavailable" failure at once: it has made no generation POST
\* and makes none.
C16_UnavailableFailsFast ==
  /\ []((pc = "caught" /\ IsModelsUnavailable(err)) => posts = << >>)
  /\ [][LearnsNoneAvailable
          => (pc' = "caught" /\ IsModelsUnavailable(err') /\ posts' = posts)]_vars

\* C16 witness: every probe of the first client call failed, and the call
\* threw the "models unavailable" failure without a POST.
C16_Witness ==
  /\ pc = "caught"
  /\ attempt = 1
  /\ IsModelsUnavailable(err)
  /\ availabilityCache = [present |-> TRUE, timestamp |-> StartClock, models |-> {}]
  /\ posts = << >>

\* fetchWithHandling's failure for a fetch that got no HTTP response.
IsConnectivityFailure(e) ==
  /\ e.name = "AIClientError"
  /\ e.status = NoStatus
  /\ IncludesPhrase(e.message, <<"request", "failed", "before", "reaching", "the", "api">>)

\* C17: a call one of whose HTTP exchanges (a generation POST or a model
\* probe) got no HTTP response ends with the connectivity failure.
C17_NoResponseIsConnectivityFailure ==
  (ExplicitModel /\ transportSeen # {} /\ pc = "done") => IsConnectivityFailure(result)

\* An attempt of the call failed with HTTP 404: the first client call as a
\* whole, or a POST inside a client that then tried its next model.
AttemptFailed404 == firstErr.status = 404 \/ lastError.status = 404

\* C19: a call that ends in a Success after an attempt failed with 404
\* returns the Success of its last attempt: the story, and the raw payload
\* it was parsed from, belong to the last POST made, and the result carries
\* nothing of the failure.
C19_SuccessIsLastAttempt ==
  (pc = "done" /\ IsSuccess(result) /\ AttemptFailed404)
    => /\ Len(posts) >= 2
       /\ result.post = Len(posts)
       /\ result.content = posts[Len(posts)]
       /\ result.raw \in {d.words : d \in {b \in DataBodies : b.text}}
       /\ DOMAIN result = {"name", "content", "post", "raw"}

\* C19 witness: the first client call failed with 404 for the requested
\* model and the default-model retry returned a story.
C19_Witness ==
  /\ pc = "done"
  /\ IsSuccess(result)
  /\ firstErr.status = 404
  /\ Len(calls) = 2
  /\ result.content = provider.defaultModel
  /\ request.model # provider.defaultModel

\* The request is for the Gemini client.
GeminiCall == request.provider = "gemini"

\* A 'not found' failure: HTTP 404, or a message containing "not found".
NotFoundFailure(e) == e.status = 404 \/ IncludesPhrase(e.message, <<"not", "found">>)

\* The model the client call is for and its aliases, in their order.
Aliases ==
  modelFallbacks(IF callModel = NoModel THEN provider.defaultModel ELSE callModel)

\* A generation POST of the client is under way.
InPost == pc \in {"fetch", "bodyOk", "bodyErr"}

\* C23: the Gemini client posts for the requested model first; it posts for
\* the next alias only after the POST before it failed with 'not found' and
\* an alias is left, one POST at a time; on a success, or on any other
\* failure, or on a 'not found' failure of the last alias, it stops and the
\* call's outcome is the outcome of that POST.
C23_AliasesInSequence ==
  [][GeminiCall =>
       /\ posts' # posts => (pc = "client" \/ InPost) /\ Len(posts') = Len(posts) + 1
       /\ (pc = "client" /\ pc' # pc)
            => /\ posts' = Append(posts, Aliases[1])
               /\ Aliases[1] = (IF callModel = NoModel THEN provider.defaultModel
                                                       ELSE callModel)
               /\ idx' = 1
       /\ (InPost /\ posts' # posts)
            => /\ NotFoundFailure(lastError')
               /\ idx < Len(Aliases)
               /\ idx' = idx + 1
               /\ posts' = Append(posts, Aliases[idx'])
       /\ (InPost /\ pc' = "caught")
            => /\ err' = lastError'
               /\ ~NotFoundFailure(err') \/ idx = Len(Aliases)
       /\ (InPost /\ pc' = "done")
            => /\ result'.name = "AIResponse"
               /\ result'.content = Aliases[idx]
               /\ result'.post = Len(posts)]_vars

\* C23 witness: the requested model and its alias were posted for in turn,
\* the alias failed with 'not found' too, and the client call ended with
\* the alias's failure.
C23_Witness ==
  /\ GeminiCall
  /\ attempt = 1
  /\ pc = "caught"
  /\ Len(Aliases) = 2
  /\ posts = Aliases
  /\ firstErr = NoError
  /\ NotFoundFailure(err)
  /\ err = lastError

\* The client call ends in this step by throwing.
ClientThrows == pc # "caught" /\ pc' = "caught"

\* The client call issues a generation POST in this step.
Posts == posts' # posts

C26_NoRetryOfDefault ==
  [][(attempt = 1 /\ attempt' = 2) => provider.defaultModel \notin Range(posts)]_vars

\* C27: when a probe round ends, a candidate is left out of the entry
\* written for the credential only if its probe was answered with a non-2xx
\* response: never after a probe that got no response or timed out.
C27_OnlyRefusedProbesExclude ==
  [][(ExplicitModel /\ pc = "probing" /\ pc' # "probing")
       => \A m \in DOMAIN probe :
            m \notin availabilityCache'.models => probe[m] = "notok"]_vars

\* ------------------------------------------------------------------------
\* Properties of the comparison run (checked under SpecAB)
\* ------------------------------------------------------------------------
Terminal == {"success", "error"}

\* The variants a reader can see: the working run's and the stored runs'.
VariantsOf(exps) == UNION {Range(exps[k].variants) : k \in DOMAIN exps}

\* Between two consecutive states, a variant's status either stays or goes
\* from pending to a terminal status.
StatusStep ==
  \A v \in VariantsOf(experimentsToDisplay) :
    \A w \in VariantsOf(experimentsToDisplay') :
      (v.id = w.id /\ v.status # w.status)
        => (v.status = "pending" /\ w.status \in Terminal)

\* C2: in the working view and in the stored runs alike, a variant's status
\* changes only from pending to success or error (so at most once, never
\* back to pending, never to the other terminal status), and every variant
\* of a stored finished run has made that change.
C2_StatusChangesOnce ==
  /\ [](\A v \in VariantsOf(abExperiments) : v.status \in Terminal)
  /\ [][StatusStep]_vars

\* C2 witness: the working view shows a success, an error and a variant
\* that is still pending.
C2_Witness ==
  /\ abWorkingExperiment # NoExperiment
  /\ \E v \in Range(abWorkingExperiment.variants) : v.status = "success"
  /\ \E v \in Range(abWorkingExperiment.variants) : v.status = "error"
  /\ \E v \in Range(abWorkingExperiment.variants) : v.status = "pending"

\* The state of a variant agrees with its own generateStory promise:
\* pending while the promise is unsettled, success with the story it
\* resolved with, error when it rejected.
OwnOutcome(v) ==
  IF v.id \notin DOMAIN outcomes
    THEN v.status = "pending" /\ v.content = NoText /\ v.error = NoText
    ELSE IF outcomes[v.id].name = "AIResponse"
      THEN v.status = "success" /\ v.content = outcomes[v.id].content /\ v.error = NoText
      ELSE v.status = "error" /\ v.content = NoText /\ v.error # NoText

\* The run started by press r of the button, where it is visible.
RunsWithId(r) == {e \in Range(experimentsToDisplay) : e.id = r}

\* C3: whatever subset of the variants fails and in whatever order the
\* promises settle, every variant (in the working view, in the handler's
\* copy, in the stored runs) shows the outcome of its own generateStory call
\* and nothing else: an unsettled sibling stays pending, a settled one keeps
\* what it was given; and a run keeps one variant per selected entry.
C3_OwnOutcomePerVariant ==
  /\ \A v \in VariantsOf(experimentsToDisplay) \cup Range(mutableVariants) : OwnOutcome(v)
  /\ \A r \in DOMAIN submitted :
       \A e \in RunsWithId(r) : Len(e.variants) = Len(submitted[r])

\* C3 witness: a stored run of three variants in which the second failed
\* and the first and third succeeded.
C3_Witness ==
  \E e \in Range(abExperiments) :
    /\ Len(e.variants) = 3
    /\ e.variants[1].status = "success"
    /\ e.variants[2].status = "error"
    /\ e.variants[3].status = "success"

\* A provider whose stored key is missing or all blanks.
LacksCredential(p) == \A i \in DOMAIN apiKeys[p] : apiKeys[p][i] = " "

SelectedWithoutCredential(selection) ==
  {selection[i].providerId : i \in DOMAIN selection} \cap {p \in Providers : LacksCredential(p)}

\* C10: a run of two or more selected providers of which one lacks a usable
\* credential is rejected: no request is handed to generateStory for it, no
\* run with its variants becomes visible or is stored, and the error line
\* asks for the key of a selected provider that lacks one.
C10_MissingCredentialRejected ==
  \A r \in DOMAIN submitted :
    (Len(submitted[r]) >= 2 /\ SelectedWithoutCredential(submitted[r]) # {})
      => /\ \A v \in DOMAIN abRequests : v[1] # r
         /\ RunsWithId(r) = {}
         /\ experiment.id # r
         /\ r = runs =>
              \E p \in SelectedWithoutCredential(submitted[r]) :
                abError = <<"add", "an", "api", "key", "for", defaultProviders[p].label>>

\* C10 witness: three providers were selected, two with usable keys and one
\* without, and the run was rejected.
C10_Witness ==
  /\ runs = 1
  /\ Len(submitted[1]) = 3
  /\ Cardinality(SelectedWithoutCredential(submitted[1])) = 1
  /\ abError # NoText

\* C12: a winner can be marked on the run in progress as soon as one of its
\* variants is a success: whenever the working run shows a variant with
\* status success, marking that variant as the winner is possible.
C12_WinnerMarkedInProgress ==
  \A j \in DOMAIN abWorkingExperiment.variants :
    abWorkingExperiment.variants[j].status = "success"
      => VoteWinnerEnabled(abWorkingExperiment, abWorkingExperiment.variants[j])

\* The run whose variant settles in a step, before the step (the working
\* view) and after it (the working view, or the stored run at completion).
RunAfterSettle ==
  IF abWorkingExperiment' # NoExperiment THEN abWorkingExperiment' ELSE abExperiments'[1]

\* The step in which the generateStory promise of variant v settles leaves
\* the run's id, the number, order and ids of its variants and every other
\* variant as they were; of variant v it keeps the provider and the model.
FrameOfSettle(v) ==
  LET before == abWorkingExperiment.variants
      after == RunAfterSettle.variants
  IN /\ RunAfterSettle.id = abWorkingExperiment.id
     /\ Len(after) = Len(before)
     /\ \A k \in DOMAIN before :
          /\ after[k].id = before[k].id
          /\ after[k].providerId = before[k].providerId
          /\ after[k].model = before[k].model
          /\ before[k].id # v => after[k] = before[k]

\* C13: the completion of one variant changes only that variant's own slot,
\* in the working view while the run is in progress and in the stored run
\* when the completion is the run's last.
C13_OnlyOwnSlotChanges ==
  [][\A v \in (DOMAIN outcomes') \ (DOMAIN outcomes) : FrameOfSettle(v)]_vars

\* C13 witness: of a run of three, the middle variant has completed and
\* both neighbours are still pending.
C13_Witness ==
  /\ Len(abWorkingExperiment.variants) = 3
  /\ abWorkingExperiment.variants[1].status = "pending"
  /\ abWorkingExperiment.variants[2].status \in Terminal
  /\ abWorkingExperiment.variants[3].status = "pending"

\* The run in progress leaves the working slot in this step.
RunCompletes == abWorkingExperiment # NoExperiment /\ abWorkingExperiment' = NoExperiment

\* C18: a stored run has terminal variants only, each with its generateStory
\* promise settled; the run in progress has an unsettled promise (so it is
\* complete as soon as the last promise has settled); and the step in which
\* the run leaves the working slot puts it, all variants terminal, in front
\* of the draft's stored runs.
C18_CompleteWhenAllTerminal ==
  /\ [](\A e \in Range(abExperiments) :
          \A v \in Range(e.variants) : v.status \in Terminal /\ v.id \in DOMAIN outcomes)
  /\ [](abWorkingExperiment # NoExperiment
          => \E v \in Range(abWorkingExperiment.variants) : v.id \notin DOMAIN outcomes)
  /\ [][RunCompletes
          => /\ Len(abExperiments') = Len(abExperiments) + 1
             /\ abExperiments'[1].id = abWorkingExperiment.id
             /\ \A v \in Range(abExperiments'[1].variants) : v.status \in Terminal
             /\ \A k \in DOMAIN abExperiments :
                  abExperiments'[k + 1].id = abExperiments[k].id]_vars

\* C18 witness: a run of this session is stored, both of its variants
\* having failed, and the working slot is empty again.
C18_Witness ==
  /\ abWorkingExperiment = NoExperiment
  /\ \E e \in Range(abExperiments) :
       /\ e.id = runs
       /\ Len(e.variants) = 2
       /\ \A v \in Range(e.variants) : v.status = "error"

\* A slot as a reader may find it: pending without content or error, success
\* with content and without error, error with a message and without content.
ConsistentSlot(v) ==
  \/ v.status = "pending" /\ v.content = NoText /\ v.error = NoText
  \/ v.status = "success" /\ v.content # NoText /\ v.error = NoText
  \/ v.status = "error" /\ v.error # NoText /\ v.content = NoText

\* C22: in every snapshot a reader can observe, the working run while it is
\* in progress and the stored runs afterwards, every variant is consistent:
\* pending, success or error, with exactly the fields of that status.
C22_SnapshotsConsistent ==
  \A k \in DOMAIN experimentsToDisplay :
    \A j \in DOMAIN experimentsToDisplay[k].variants :
      ConsistentSlot(experimentsToDisplay[k].variants[j])

\* C22 witness: while the run is in progress its working copy shows the
\* story of one variant next to the failure message of another, and a slot
\* that has neither yet.
C22_Witness ==
  /\ abWorkingExperiment # NoExperiment
  /\ \E i, j, k \in DOMAIN abWorkingExperiment.variants :
       /\ abWorkingExperiment.variants[i].content # NoText
       /\ abWorkingExperiment.variants[i].content = outcomes[VariantId(runs, i)].content
       /\ abWorkingExperiment.variants[j].error # NoText
       /\ abWorkingExperiment.variants[j].content = NoText
       /\ abWorkingExperiment.variants[k].status = "pending"
       /\ VariantId(runs, k) \notin DOMAIN outcomes

\* C25: the error stored on a variant whose generateStory call failed is the
\* message of the failure the call rejected with, word for word.
C25_ErrorStoredVerbatim ==
  \A v \in VariantsOf(experimentsToDisplay) \cup Range(mutableVariants) :
    (v.id \in DOMAIN outcomes /\ ~IsSuccess(outcomes[v.id]))
      => v.error = outcomes[v.id].message

\* C29: the step that completes a run keeps every experiment stored on the
\* draft, each with the winner it has at that moment, and adds the finished
\* run.
C29_CompletionKeepsStored ==
  [][RunCompletes
       => /\ \A e \in Range(abExperiments) : e \in Range(abExperiments')
          /\ Len(abExperiments') = Len(abExperiments) + 1]_vars

EntryMissingOrExpired ==
  ~availabilityCache.present \/ wallClock - availabilityCache.timestamp >= CACHE_TTL

\* Call c begins in this step.
Begins(c) == filterCall[c].pc = "idle" /\ filterCall'[c].pc # "idle"

\* The probe round of call c ends in this step.
Settles(c) == filterCall[c].pc = "probing" /\ filterCall'[c].pc = "done"

\* C15: a call that begins when the entry is missing or at least one TTL
\* old sends a probe for every one of its candidates, and when its probe
\* round ends the cache entry is the call's own result with the call's own
\* timestamp.
C15_ExpiredEntryReprobed ==
  [][\A c \in FilterCalls :
       /\ (Begins(c) /\ EntryMissingOrExpired)
            => /\ filterCall'[c].pc = "probing"
               /\ filterCall'[c].candidates # << >>
               /\ probeRounds' = probeRounds \cup {[call |-> c, at |-> wallClock]}
               /\ [call |-> c, at |-> wallClock] \notin probeRounds
       /\ Settles(c)
            => /\ availabilityCache'.present
               /\ availabilityCache'.timestamp = filterCall[c].now
               /\ availabilityCache'.models = Range(filterCall'[c].returned)]_vars

\* C15 witness: a call that began exactly one TTL after an earlier probe
\* round has probed again, and the entry carries its timestamp.
C15_Witness ==
  \E c \in FilterCalls :
    /\ filterCall[c].pc = "done"
    /\ [call |-> c, at |-> filterCall[c].now] \in probeRounds
    /\ \E r \in probeRounds : r.at + CACHE_TTL = filterCall[c].now
    /\ availabilityCache.timestamp = filterCall[c].now

\* Call c ran a probe round and wrote the entry.
Wrote(c) ==
  /\ filterCall[c].pc = "done"
  /\ [call |-> c, at |-> filterCall[c].now] \in probeRounds

\* The entry call c writes: its own now, and the models its own probes
\* found.
OwnEntry(c) == [present |-> TRUE, timestamp |-> filterCall[c].now,
                models |-> Range(filterCall[c].returned)]

\* C21: however the calls that found the entry stale interleave, the entry
\* is changed only by a call whose probe round ends, it is then that call's
\* own (timestamp, models) pair, and so at any time after a write it is the
\* pair of one single call, with models that call probed itself: never a
\* mixture of two calls' results.
C21_LastWriterWins ==
  /\ []((\E c \in FilterCalls : Wrote(c))
         => \E c \in FilterCalls :
              /\ Wrote(c)
              /\ availabilityCache = OwnEntry(c)
              /\ availabilityCache.models \subseteq Range(filterCall[c].candidates))
  /\ [][/\ \A c \in FilterCalls : Settles(c) => availabilityCache' = OwnEntry(c)'
        /\ availabilityCache' # availabilityCache => \E c \in FilterCalls : Settles(c)]_vars

\* C21 witness: two calls probed side by side and found different models;
\* the one that began first wrote last, so the entry is its pair, with the
\* older timestamp.
C21_Witness ==
  /\ Wrote(1) /\ Wrote(2)
  /\ filterCall[1].now < filterCall[2].now
  /\ filterCall[2].now - filterCall[1].now < CACHE_TTL
  /\ filterCall[1].returned # << >>
  /\ filterCall[2].returned # << >>
  /\ Range(filterCall[1].returned) # Range(filterCall[2].returned)
  /\ availabilityCache = OwnEntry(1)

\* The candidate lists the client builds for the models the catalogue lists
\* for the provider.
ClientCandidateLists ==
  {buildCandidateOrder(preferred, defaultProviders["openai"].defaultModel) :
     preferred \in Range(defaultProviders["openai"].models)}

\* The backends (sets of models whose probe is answered 2xx) under which
\* some probe round of the client writes an entry with these models.
BackendsWriting(models) ==
  {B \in SUBSET UNION {Range(cands) : cands \in ClientCandidateLists} :
     \E cands \in ClientCandidateLists : B \cap Range(cands) = models}

\* What a probe round for cands returns under backend B.
FreshResult(cands, B) == FilterBy(cands, B)

\* Call c is answered from the cache in this step.
AnsweredFromCache(c) == Begins(c) /\ CacheHit(availabilityCache, wallClock)

DistinctProviders(selection) == {selection[i].providerId : i \in DOMAIN selection}

\* The error line of the panel: localError || error
ErrorLine == IF localError # NoText THEN localError ELSE abError

SessionVariants ==
  {v \in VariantsOf(experimentsToDisplay) \cup Range(mutableVariants) :
     v.id \in DOMAIN abRequests}

RowOf(providerId) == IF providerId \in Providers THEN providerId ELSE "default"

\* (tokens / 1000) * (inputRate + outputRate) in thousandths, rounded to the
\* nearest whole number, a half upwards; the rates are in millionths.
RoundedProduct(providerId, tokens) ==
  LET rates == PROVIDER_COST_RATES[RowOf(providerId)]
  IN (tokens * (rates.input + rates.output) + (Base * Base) \div 2) \div (Base * Base)

\* C20: the estimate equals (tokens / 1000) * (inputRate + outputRate)
\* rounded to three decimals, with the rates of the provider's row or of the
\* default row for custom or unregistered ids, and is 0 for tokens = 0.
C20_EstimateIsRoundedProduct ==
  costEstimate # NoCost
    => /\ costEstimate = RoundedProduct(costProvider, costTokens)
       /\ (costTokens = 0 => costEstimate = 0)

====
